---- MODULE Spec2Model ----
(***************************************************************************)
(* The onetimesecret API client (package onetimesecret) and its command    *)
(* line front end (cmd/onetimesecret).                                     *)
(*                                                                         *)
(* A Go string is a sequence of one-character strings, so that the         *)
(* conversions of the client (strconv.Itoa, url.Values.Encode, the URL the *)
(* request is built from) are computed character by character.             *)
(***************************************************************************)
EXTENDS Integers, Sequences, FiniteSets, TLC

VARIABLES
    params,     \* SpecOptions: the url.Values an Option is applied to
    applied,    \* SpecOptions: what the last step applied
    c,          \* the Client value: [Username, APIToken]
    sent,       \* the requests handed to http.DefaultClient.Do by the last operation
    res,        \* what the last operation returned to its caller
    out,        \* what the last CLI command printed
    net,        \* Spec: what the transport will do with the next requests
    svc,        \* SpecService: the remote service's secrets
    hist        \* SpecService: what the callers have seen so far

vars == <<params, applied, c, sent, res, out, net, svc, hist>>

(***************************************************************************)
(* Strings                                                                 *)
(***************************************************************************)

\* The characters of the model, in byte order.
Alphabet ==
    << " ", "%", "&", "+", "-",
       "0", "1", "2", "3", "4", "5", "6", "7", "8", "9",
       "=", "@", "B", "D",
       "a", "b", "c", "d", "e", "f", "g", "h", "i", "j", "k", "l", "m",
       "n", "o", "p", "q", "r", "s", "t", "u", "v", "w", "x", "y", "z" >>

Ord(ch) == CHOOSE i \in 1..Len(Alphabet) : Alphabet[i] = ch

RECURSIVE StrLess(_, _)
StrLess(a, b) ==
    IF b = <<>> THEN FALSE
    ELSE IF a = <<>> THEN TRUE
    ELSE IF Head(a) = Head(b) THEN StrLess(Tail(a), Tail(b))
    ELSE Ord(Head(a)) < Ord(Head(b))

RECURSIVE Join(_)
Join(ss) == IF ss = <<>> THEN <<>> ELSE Head(ss) \o Join(Tail(ss))

Digits == <<"0", "1", "2", "3", "4", "5", "6", "7", "8", "9">>

RECURSIVE NatToStr(_)
NatToStr(n) ==
    IF n < 10 THEN <<Digits[n + 1]>>
    ELSE NatToStr(n \div 10) \o <<Digits[(n % 10) + 1]>>

\* strconv.Itoa: the decimal digits, with a leading minus sign below zero
Itoa(n) == IF n < 0 THEN <<"-">> \o NatToStr(-n) ELSE NatToStr(n)

(***************************************************************************)
(* url.Values and its wire form                                            *)
(***************************************************************************)

\* url.QueryEscape: letters, digits and '-' stay, a space becomes '+', and
\* every other byte becomes %XX.
Unreserved ==
    { "-", "0", "1", "2", "3", "4", "5", "6", "7", "8", "9", "B", "D",
       "a", "b", "c", "d", "e", "f", "g", "h", "i", "j", "k", "l", "m",
       "n", "o", "p", "q", "r", "s", "t", "u", "v", "w", "x", "y", "z" }

HexOf ==
    [ch \in {"%", "&", "+", "=", "@"} |->
        CASE ch = "%" -> <<"%", "2", "5">>
          [] ch = "&" -> <<"%", "2", "6">>
          [] ch = "+" -> <<"%", "2", "B">>
          [] ch = "=" -> <<"%", "3", "D">>
          [] ch = "@" -> <<"%", "4", "0">>]

EscapeChar(ch) ==
    IF ch \in Unreserved THEN <<ch>>
    ELSE IF ch = " " THEN <<"+">>
    ELSE HexOf[ch]

RECURSIVE QueryEscape(_)
QueryEscape(s) ==
    IF s = <<>> THEN <<>> ELSE EscapeChar(Head(s)) \o QueryEscape(Tail(s))

\* url.Values.Add: the value is appended to those the key holds
Values_Add(v, key, value) ==
    [k \in DOMAIN v \cup {key} |->
        IF k = key
        THEN (IF key \in DOMAIN v THEN v[key] ELSE <<>>) \o <<value>>
        ELSE v[k]]

\* url.Values.Set: the key holds exactly the one value afterwards
Values_Set(v, key, value) ==
    [k \in DOMAIN v \cup {key} |-> IF k = key THEN <<value>> ELSE v[k]]

\* url.Values.Get: the first value of the key, "" when there is none
Values_Get(v, key) ==
    IF key \in DOMAIN v /\ v[key] # <<>> THEN v[key][1] ELSE <<>>

\* sort.Strings over the keys of the map
RECURSIVE SortKeys(_)
SortKeys(ks) ==
    IF ks = {} THEN <<>>
    ELSE LET least == CHOOSE k \in ks : \A o \in ks \ {k} : StrLess(k, o)
         IN  <<least>> \o SortKeys(ks \ {least})

\* The pairs key=value of one key, each led by '&'
RECURSIVE EncodeKey(_, _)
EncodeKey(key, vs) ==
    IF vs = <<>> THEN <<>>
    ELSE <<"&">> \o QueryEscape(key) \o <<"=">> \o QueryEscape(Head(vs))
         \o EncodeKey(key, Tail(vs))

RECURSIVE EncodeKeys(_, _)
EncodeKeys(v, keys) ==
    IF keys = <<>> THEN <<>>
    ELSE EncodeKey(Head(keys), v[Head(keys)]) \o EncodeKeys(v, Tail(keys))

\* url.Values.Encode: "k=v&k=v" sorted by key; the '&' goes between pairs only
Encode(v) ==
    LET all == EncodeKeys(v, SortKeys(DOMAIN v))
    IN  IF all = <<>> THEN <<>> ELSE Tail(all)

(***************************************************************************)
(* The decoding of the form body by its receiver (url.ParseQuery)          *)
(***************************************************************************)

UnhexOf(a, b) ==
    CASE a = "2" /\ b = "5" -> <<"%">>
      [] a = "2" /\ b = "6" -> <<"&">>
      [] a = "2" /\ b = "B" -> <<"+">>
      [] a = "3" /\ b = "D" -> <<"=">>
      [] a = "4" /\ b = "0" -> <<"@">>
      [] OTHER -> <<"?">>

RECURSIVE QueryUnescape(_)
QueryUnescape(s) ==
    IF s = <<>> THEN <<>>
    ELSE IF Head(s) = "+" THEN <<" ">> \o QueryUnescape(Tail(s))
    ELSE IF Head(s) = "%" /\ Len(s) >= 3
         THEN UnhexOf(s[2], s[3]) \o QueryUnescape(SubSeq(s, 4, Len(s)))
    ELSE <<Head(s)>> \o QueryUnescape(Tail(s))

\* The index of the first sep in s from i on, 0 when there is none
IndexOf(s, sep, i) ==
    LET at == {j \in i..Len(s) : s[j] = sep}
    IN  IF at = {} THEN 0 ELSE CHOOSE j \in at : \A o \in at : j <= o

RECURSIVE ParsePairs(_, _)
ParsePairs(s, acc) ==
    IF s = <<>> THEN acc
    ELSE LET amp  == IndexOf(s, "&", 1)
             pair == IF amp = 0 THEN s ELSE SubSeq(s, 1, amp - 1)
             rest == IF amp = 0 THEN <<>> ELSE SubSeq(s, amp + 1, Len(s))
             eq   == IndexOf(pair, "=", 1)
             key  == IF eq = 0 THEN pair ELSE SubSeq(pair, 1, eq - 1)
             val  == IF eq = 0 THEN <<>> ELSE SubSeq(pair, eq + 1, Len(pair))
         IN  IF pair = <<>> THEN ParsePairs(rest, acc)
             ELSE ParsePairs(rest,
                    Values_Add(acc, QueryUnescape(key), QueryUnescape(val)))

NoValues == [k \in {} |-> <<>>]

ParseQuery(body) == ParsePairs(body, NoValues)

(***************************************************************************)
(* time.Duration.Seconds and the conversion to int                         *)
(*                                                                         *)
(* A Duration is an int64 count of nanoseconds, kept here as its sign and  *)
(* the quotient and remainder of its magnitude by Second, which is what    *)
(* Seconds() first takes apart (sec := d / Second; nsec := d % Second).    *)
(* Seconds() returns float64(sec) + float64(nsec)/1e9: both operations     *)
(* round to the nearest float64, ties to even.  A float64 below is its     *)
(* sign, its integer part and the bits after its binary point.             *)
(***************************************************************************)

Second == 1000000000

\* the significand of a float64
MantissaBits == 53

Duration(neg, sec, nsec) == [neg |-> neg, sec |-> sec, nsec |-> nsec]

\* what is left of r / Second after its first n bits, r < Second (by halves,
\* each computed before the next is entered, which keeps the evaluation
\* shallow)
RECURSIVE DivRem(_, _)
DivRem(r, n) ==
    IF n = 0 THEN r
    ELSE IF n = 1 THEN (IF 2 * r >= Second THEN 2 * r - Second ELSE 2 * r)
    ELSE LET half == DivRem(r, n \div 2)
         IN  IF half >= 0 THEN DivRem(half, n - (n \div 2)) ELSE half

\* the first n bits of r / Second after the binary point, r < Second
RECURSIVE DivBits(_, _)
DivBits(r, n) ==
    IF n = 0 THEN <<>>
    ELSE IF n = 1 THEN (IF 2 * r >= Second THEN <<1>> ELSE <<0>>)
    ELSE LET half == DivRem(r, n \div 2)
         IN  IF half >= 0
             THEN DivBits(r, n \div 2) \o DivBits(half, n - (n \div 2))
             ELSE <<>>

\* the zero bits before the first one bit of r / Second, 0 < r < Second
RECURSIVE LeadingZeros(_)
LeadingZeros(r) == IF 2 * r >= Second THEN 0 ELSE 1 + LeadingZeros(2 * r)

RECURSIVE BitLen(_)
BitLen(n) == IF n = 0 THEN 0 ELSE 1 + BitLen(n \div 2)

Zeros(n) == [i \in 1..n |-> 0]

\* bits + one unit in the last place: [bits, carry]
Increment(bits) ==
    LET zeros == {i \in 1..Len(bits) : bits[i] = 0}
    IN  IF zeros = {} THEN [bits |-> Zeros(Len(bits)), carry |-> 1]
        ELSE LET last == CHOOSE i \in zeros : \A j \in zeros : j <= i
             IN  [bits  |-> SubSeq(bits, 1, last - 1) \o <<1>>
                            \o Zeros(Len(bits) - last),
                  carry |-> 0]

\* round to nearest, ties to even: kept are the bits that stay, lsb the bit
\* before the cut, roundBit the first bit cut off, sticky whether anything
\* non-zero follows it
RoundNearestEven(kept, lsb, roundBit, sticky) ==
    IF roundBit = 1 /\ (sticky \/ lsb = 1)
    THEN Increment(kept)
    ELSE [bits |-> kept, carry |-> 0]

\* float64(nsec) / 1e9, 0 <= nsec < Second: [int, frac]
FloatQuo(nsec) ==
    IF nsec = 0 THEN [int |-> 0, frac |-> <<>>]
    ELSE LET z    == LeadingZeros(nsec)
             n    == z + MantissaBits
             all  == DivBits(nsec, n + 1)
             kept == SubSeq(all, 1, n)
             r    == RoundNearestEven(kept, kept[n], all[n + 1],
                                      DivRem(nsec, n + 1) # 0)
         IN  [int |-> r.carry, frac |-> r.bits]

\* float64(sec) + q for a float64 q in [0, 1]: [int, frac]
FloatAdd(sec, q) ==
    LET int == sec + q.int
        k   == BitLen(int)
        n   == MantissaBits - k
        fr  == q.frac
    IN  IF int = 0 \/ Len(fr) <= n THEN [int |-> int, frac |-> fr]
        ELSE LET kept   == SubSeq(fr, 1, n)
                 lsb    == IF n = 0 THEN int % 2 ELSE kept[n]
                 sticky == \E i \in (n + 2)..Len(fr) : fr[i] = 1
                 r      == RoundNearestEven(kept, lsb, fr[n + 1], sticky)
             IN  [int |-> int + r.carry, frac |-> r.bits]

\* Duration.Seconds: the float64, with the sign of d
Seconds(d) ==
    LET f == FloatAdd(d.sec, FloatQuo(d.nsec))
    IN  [neg |-> d.neg, int |-> f.int, frac |-> f.frac]

\* int(f): the conversion truncates toward zero
IntOf(f) == IF f.neg THEN -f.int ELSE f.int

(***************************************************************************)
(* Options                                                                 *)
(***************************************************************************)

K_ttl        == <<"t", "t", "l">>
K_passphrase == <<"p", "a", "s", "s", "p", "h", "r", "a", "s", "e">>
K_recipient  == <<"r", "e", "c", "i", "p", "i", "e", "n", "t">>
K_secret     == <<"s", "e", "c", "r", "e", "t">>

\* An Option is a closure over its argument; it is kept as the constructor's
\* name and argument, and Call runs the closure's body on the url.Values.
NoDuration == Duration(FALSE, 0, 0)

OptTTL(d)            == [kind |-> "ttl", d |-> d, text |-> <<>>]
OptPassphrase(text)  == [kind |-> "passphrase", d |-> NoDuration, text |-> text]
OptRecipient(text)   == [kind |-> "recipient", d |-> NoDuration, text |-> text]

\* WithTTL(d)(params)
WithTTL(d, v) == Values_Set(v, K_ttl, Itoa(IntOf(Seconds(d))))

\* WithPassphrase(phrase)(params)
WithPassphrase(phrase, v) == Values_Set(v, K_passphrase, phrase)

\* WithRecipient(toEmail)(params)
WithRecipient(toEmail, v) == Values_Set(v, K_recipient, toEmail)

Call(opt, v) ==
    CASE opt.kind = "ttl"        -> WithTTL(opt.d, v)
      [] opt.kind = "passphrase" -> WithPassphrase(opt.text, v)
      [] opt.kind = "recipient"  -> WithRecipient(opt.text, v)

\* apply: the options run in order on the same url.Values
RECURSIVE apply(_, _)
apply(data, opts) ==
    IF opts = <<>> THEN data
    ELSE apply(Call(Head(opts), data), Tail(opts))

(***************************************************************************)
(* SpecOptions: options applied to a url.Values                            *)
(***************************************************************************)

\* how many options one url.Values receives
MaxApplied == 2

Day    == 86400
Minute == 60

DurationSamples ==
    { Duration(FALSE, 0, 0),
      Duration(FALSE, 0, 999999999),
      Duration(FALSE, 1, 500000000),
      Duration(TRUE, 1, 500000000),
      Duration(FALSE, 123, 0),
      Duration(FALSE, 14 * Day + Minute, 0),
      Duration(FALSE, 16777215, 999999999),
      Duration(FALSE, 16777216, 999999999) }

PassphraseSamples == { <<>>, <<"p">>, <<"a", "&", "b", "=">> }

EmailSamples == { <<"a", "@", "b">>, <<"c", "@", "d">> }

\* the durations of the options whose combinations are compared
OptionDurations ==
    { Duration(FALSE, 0, 999999999),
      Duration(TRUE, 1, 500000000),
      Duration(FALSE, 123, 0) }

OptionSamples ==
    {OptTTL(d) : d \in OptionDurations}
    \cup {OptPassphrase(t) : t \in PassphraseSamples}
    \cup {OptRecipient(e) : e \in EmailSamples}

\* the url.Values the options meet: empty, CreateSecret's, and one whose
\* keys already hold values (two under "ttl")
InitialParams ==
    { NoValues,
      K_secret :> << <<"a", "b", "c">> >>,
      (K_secret :> << <<"x">> >>) @@ (K_ttl :> << <<"1">>, <<"2">> >>)
          @@ (K_passphrase :> << <<"q">> >>) }

NoClient == [Username |-> <<>>, APIToken |-> <<>>]

OptionsInit ==
    /\ params \in InitialParams
    /\ applied = [base |-> params, opts |-> <<>>]
    /\ c = NoClient
    /\ sent = <<>>
    /\ res = <<>>
    /\ out = <<>>
    /\ net = <<>>
    /\ svc = <<>>
    /\ hist = <<>>

ApplyTTL(d) ==
    /\ Len(applied.opts) < MaxApplied
    /\ params' = apply(params, <<OptTTL(d)>>)
    /\ applied' = [applied EXCEPT !.opts = Append(@, OptTTL(d))]
    /\ UNCHANGED <<c, sent, res, out, net, svc, hist>>

ApplyPassphrase(phrase) ==
    /\ Len(applied.opts) < MaxApplied
    /\ params' = apply(params, <<OptPassphrase(phrase)>>)
    /\ applied' = [applied EXCEPT !.opts = Append(@, OptPassphrase(phrase))]
    /\ UNCHANGED <<c, sent, res, out, net, svc, hist>>

ApplyRecipient(toEmail) ==
    /\ Len(applied.opts) < MaxApplied
    /\ params' = apply(params, <<OptRecipient(toEmail)>>)
    /\ applied' = [applied EXCEPT !.opts = Append(@, OptRecipient(toEmail))]
    /\ UNCHANGED <<c, sent, res, out, net, svc, hist>>

OptionsNext ==
    \/ \E d \in OptionDurations : ApplyTTL(d)
    \/ \E phrase \in PassphraseSamples : ApplyPassphrase(phrase)
    \/ \E toEmail \in EmailSamples : ApplyRecipient(toEmail)

SpecOptions == OptionsInit /\ [][OptionsNext]_vars

\* SpecTTL: WithTTL over the sampled durations
TTLNext == \E d \in DurationSamples : ApplyTTL(d)

SpecTTL == OptionsInit /\ [][TTLNext]_vars

\* the key an option writes and the value it writes there
KeyOf(opt) ==
    CASE opt.kind = "ttl"        -> K_ttl
      [] opt.kind = "passphrase" -> K_passphrase
      [] opt.kind = "recipient"  -> K_recipient

ValueOf(opt) ==
    IF opt.kind = "ttl" THEN Itoa(IntOf(Seconds(opt.d))) ELSE opt.text

\* the last option of the list that writes key (the list holds one)
LastFor(opts, key) ==
    LET at == {i \in 1..Len(opts) : KeyOf(opts[i]) = key}
    IN  opts[CHOOSE i \in at : \A j \in at : j <= i]

SameElsewhere(v, w, key) ==
    /\ DOMAIN v \ {key} = DOMAIN w \ {key}
    /\ \A k \in DOMAIN v \ {key} : v[k] = w[k]

\* C7: on every url.Values the options reach: an option applied twice gives
\* what it gives applied once; two options on different keys give the same
\* in either order; of two options on the same key the last one's single
\* value stays; an option changes its own key only, so every key no applied
\* option writes is as it was at the start, "secret" included.
C7_OptionsAlgebra ==
    /\ \A o \in OptionSamples :
          /\ Call(o, Call(o, params)) = Call(o, params)
          /\ apply(params, <<o, o>>) = apply(params, <<o>>)
          /\ SameElsewhere(Call(o, params), params, KeyOf(o))
          /\ Call(o, params)[KeyOf(o)] = <<ValueOf(o)>>
    /\ \A a, b \in OptionSamples :
          IF KeyOf(a) # KeyOf(b)
          THEN apply(params, <<a, b>>) = apply(params, <<b, a>>)
          ELSE apply(params, <<a, b>>)[KeyOf(b)] = <<ValueOf(b)>>
    /\ \A key \in {K_ttl, K_passphrase, K_recipient, K_secret} :
          IF \E i \in 1..Len(applied.opts) : KeyOf(applied.opts[i]) = key
          THEN params[key] = <<ValueOf(LastFor(applied.opts, key))>>
          ELSE /\ key \in DOMAIN params <=> key \in DOMAIN applied.base
               /\ key \in DOMAIN params => params[key] = applied.base[key]

\* Two different options on one key were applied to CreateSecret's
\* url.Values, which already held two values under that key.
C7_Witness ==
    /\ Len(applied.opts) = 2
    /\ KeyOf(applied.opts[1]) = KeyOf(applied.opts[2])
    /\ ValueOf(applied.opts[1]) # ValueOf(applied.opts[2])
    /\ K_ttl \in DOMAIN applied.base
    /\ Len(applied.base[K_ttl]) = 2
    /\ K_secret \in DOMAIN params

\* the whole seconds of d, the fraction of a second dropped
WholeSeconds(d) == IF d.neg THEN -d.sec ELSE d.sec

\* C8: after WithTTL(d) the "ttl" parameter is the decimal number of whole
\* seconds of d, the fraction of a second truncated.
C8_TTLWholeSeconds ==
    \A i \in 1..Len(applied.opts) :
        (i = Len(applied.opts) /\ applied.opts[i].kind = "ttl")
            => params[K_ttl] = <<Itoa(WholeSeconds(applied.opts[i].d))>>

(***************************************************************************)
(* JSON bodies and encoding/json's decoding of them                        *)
(***************************************************************************)

\* A JSON value: a string, an integer, a boolean, an array of strings, null
JStr(str)   == [t |-> "string", s |-> str,  n |-> 0,   b |-> FALSE, l |-> <<>>]
JNum(num)   == [t |-> "number", s |-> <<>>, n |-> num, b |-> FALSE, l |-> <<>>]
JBool(bool) == [t |-> "bool",   s |-> <<>>, n |-> 0,   b |-> bool,  l |-> <<>>]
JList(list) == [t |-> "array",  s |-> <<>>, n |-> 0,   b |-> FALSE, l |-> list]
JNull       == [t |-> "null",   s |-> <<>>, n |-> 0,   b |-> FALSE, l |-> <<>>]

NoFields == [k \in {} |-> JNull]

\* A response body: not JSON at all ("garbage"), nothing ("empty"), or one
\* JSON value: null, an object (fields), an array of objects (items)
Body(kind, fields, items) == [kind |-> kind, fields |-> fields, items |-> items]
GarbageBody     == Body("garbage", NoFields, <<>>)
EmptyBody       == Body("empty", NoFields, <<>>)
NullBody        == Body("null", NoFields, <<>>)
ObjectBody(obj) == Body("object", obj, <<>>)
ArrayBody(objs) == Body("array", NoFields, objs)

\* type Metadata struct, zero valued
ZeroMetadata ==
    [ CustomerID         |-> <<>>,
      MetadataKey        |-> <<>>,
      SecretKey          |-> <<>>,
      Recipient          |-> <<>>,
      PassphraseRequired |-> FALSE,
      TTL                |-> 0,
      MetatdataTTL       |-> 0,
      SecretTTL          |-> 0,
      Created            |-> 0,
      Update             |-> 0,
      Received           |-> 0 ]

\* a member of the object that a struct field of another type cannot take
Mismatch(obj, key, type) ==
    key \in DOMAIN obj /\ obj[key].t \notin {type, "null"}

\* the field after the object is decoded into the struct: a member of the
\* field's type is stored, a null or a member of another type leaves it
StrField(obj, key, old) ==
    IF key \in DOMAIN obj /\ obj[key].t = "string" THEN obj[key].s ELSE old

IntField(obj, key, old) ==
    IF key \in DOMAIN obj /\ obj[key].t = "number" THEN obj[key].n ELSE old

BoolField(obj, key, old) ==
    IF key \in DOMAIN obj /\ obj[key].t = "bool" THEN obj[key].b ELSE old

ListField(obj, key, old) ==
    IF key \in DOMAIN obj /\ obj[key].t = "array" THEN obj[key].l ELSE old

\* the struct tags of Metadata; Received has none and takes "received"
MetadataTags ==
    [ custid              |-> "string",
      metadata_key        |-> "string",
      secret_key          |-> "string",
      recipient           |-> "array",
      passphrase_required |-> "bool",
      ttl                 |-> "number",
      metadata_ttl        |-> "number",
      secret_ttl          |-> "number",
      created             |-> "number",
      updated             |-> "number",
      received            |-> "number" ]

MetadataMismatch(obj) ==
    \E key \in DOMAIN MetadataTags : Mismatch(obj, key, MetadataTags[key])

DecodeMetadata(obj, m) ==
    [ CustomerID         |-> StrField(obj, "custid", m.CustomerID),
      MetadataKey        |-> StrField(obj, "metadata_key", m.MetadataKey),
      SecretKey          |-> StrField(obj, "secret_key", m.SecretKey),
      Recipient          |-> ListField(obj, "recipient", m.Recipient),
      PassphraseRequired |-> BoolField(obj, "passphrase_required",
                                       m.PassphraseRequired),
      TTL                |-> IntField(obj, "ttl", m.TTL),
      MetatdataTTL       |-> IntField(obj, "metadata_ttl", m.MetatdataTTL),
      SecretTTL          |-> IntField(obj, "secret_ttl", m.SecretTTL),
      Created            |-> IntField(obj, "created", m.Created),
      Update             |-> IntField(obj, "updated", m.Update),
      Received           |-> IntField(obj, "received", m.Received) ]

\* What Do decodes into: nothing (out == nil), *Metadata, *GeneratedSecret,
\* *[]Metadata, or its own APIError.  One record carries them all: meta
\* (Metadata, and the Metadata embedded in GeneratedSecret), value
\* (GeneratedSecret.Value), list ([]Metadata), message (APIError.Message).
Dest(kind) ==
    [ kind    |-> kind,
      meta    |-> ZeroMetadata,
      value   |-> <<>>,
      list    |-> <<>>,
      message |-> <<>> ]

\* error values
NilErr          == [kind |-> "nil", message |-> <<>>]
BuildErr        == [kind |-> "build", message |-> <<>>]
TransportErr    == [kind |-> "transport", message |-> <<>>]
DecodeErr       == [kind |-> "decode", message |-> <<>>]
APIError(msg)   == [kind |-> "api", message |-> msg]

\* the members of the object that the destination has a field for and
\* cannot take
ObjectMismatch(obj, kind) ==
    CASE kind = "Metadata"        -> MetadataMismatch(obj)
      [] kind = "GeneratedSecret" -> MetadataMismatch(obj)
                                     \/ Mismatch(obj, "value", "string")
      [] kind = "APIError"        -> Mismatch(obj, "message", "string")
      [] OTHER                    -> TRUE

DecodeObject(obj, dest) ==
    CASE dest.kind = "Metadata" ->
            [dest EXCEPT !.meta = DecodeMetadata(obj, dest.meta)]
      [] dest.kind = "GeneratedSecret" ->
            [dest EXCEPT !.meta  = DecodeMetadata(obj, dest.meta),
                         !.value = StrField(obj, "value", dest.value)]
      [] dest.kind = "APIError" ->
            [dest EXCEPT !.message = StrField(obj, "message", dest.message)]
      [] OTHER -> dest

\* json.NewDecoder(body).Decode(&dest): [err, out].  A body that is no JSON
\* value fails before anything is stored.  An object fills the fields it
\* can and reports a member of the wrong type after the others are stored.
\* An array goes to a slice only and an object to a struct only.
Decode(body, dest) ==
    CASE body.kind \in {"garbage", "empty"} ->
            [err |-> DecodeErr, out |-> dest]
      [] body.kind = "null" ->
            [err |-> NilErr, out |-> dest]
      [] body.kind = "object" ->
            IF dest.kind = "MetadataList"
            THEN [err |-> DecodeErr, out |-> dest]
            ELSE [err |-> IF ObjectMismatch(body.fields, dest.kind)
                          THEN DecodeErr ELSE NilErr,
                  out |-> DecodeObject(body.fields, dest)]
      [] body.kind = "array" ->
            IF dest.kind # "MetadataList"
            THEN [err |-> DecodeErr, out |-> dest]
            ELSE [err |-> IF \E i \in 1..Len(body.items) :
                                MetadataMismatch(body.items[i])
                          THEN DecodeErr ELSE NilErr,
                  out |-> [dest EXCEPT !.list =
                             [i \in 1..Len(body.items) |->
                                DecodeMetadata(body.items[i], ZeroMetadata)]]]

(***************************************************************************)
(* Client.Do and the operations of the client                              *)
(***************************************************************************)

baseAPI == "https://onetimesecret.com/api/v1"

P_share     == <<"/", "s", "h", "a", "r", "e">>
P_generate  == <<"/", "g", "e", "n", "e", "r", "a", "t", "e">>
P_secret    == <<"/", "s", "e", "c", "r", "e", "t", "/">>
P_private   == <<"/", "p", "r", "i", "v", "a", "t", "e", "/">>
P_recent    == <<"r", "e", "c", "e", "n", "t">>

HexDigits ==
    {"0", "1", "2", "3", "4", "5", "6", "7", "8", "9",
     "a", "b", "c", "d", "e", "f", "B", "D"}

\* http.NewRequest parses baseAPI+path and fails on a '%' that two
\* hexadecimal digits do not follow
ValidURL(path) ==
    \A i \in 1..Len(path) :
        path[i] = "%" =>
            /\ i + 2 <= Len(path)
            /\ path[i + 1] \in HexDigits
            /\ path[i + 2] \in HexDigits

NoAuth == [set |-> FALSE, user |-> <<>>, pass |-> <<>>]

\* http.NewRequest(method, baseAPI+path, strings.NewReader(params.Encode()))
NewRequest(method, path, values) ==
    [ method      |-> method,
      base        |-> baseAPI,
      path        |-> path,
      body        |-> Encode(values),
      auth        |-> NoAuth,
      contentType |-> "",
      accept      |-> "",
      userAgent   |-> "" ]

\* req.SetBasicAuth under the condition Do puts on it
SetAuth_Either(cl, req) ==
    IF cl.Username # <<>> \/ cl.APIToken # <<>>
    THEN [req EXCEPT !.auth =
            [set |-> TRUE, user |-> cl.Username, pass |-> cl.APIToken]]
    ELSE req

SetAuth(cl, req) ==
    IF cl.Username # <<>> /\ cl.APIToken # <<>>
    THEN [req EXCEPT !.auth =
            [set |-> TRUE, user |-> cl.Username, pass |-> cl.APIToken]]
    ELSE req

SetHeaders(req) ==
    [req EXCEPT !.contentType = "application/x-www-form-urlencoded",
                !.accept      = "application/json",
                !.userAgent   = "go-onetimesecret/0.1"]

\* What the transport does with the requests it is handed, in order: it
\* fails ("error") or it returns a response (status, body).
TransportFails == [kind |-> "error", status |-> 0, body |-> EmptyBody]
Response(status, body) == [kind |-> "response", status |-> status, body |-> body]

\* a Do that returns an APIError it has not decoded the body into
ErrorReturn_NoMessage(decoded, dest) ==
    IF decoded.err # NilErr
    THEN [err |-> decoded.err, out |-> dest]
    ELSE [err |-> APIError(<<>>), out |-> dest]

\* what Do returns for a response of status >= 400, decoded is the decoding
\* of its body into an APIError: [err, out]
ErrorReturn(decoded, dest) ==
    IF decoded.err # NilErr
    THEN [err |-> decoded.err, out |-> dest]
    ELSE [err |-> APIError(decoded.out.message), out |-> dest]

\* a Do that takes status 400 for a success
HandleResponse_Above400(resp, dest) ==
    IF resp.status > 400
    THEN ErrorReturn(Decode(resp.body, Dest("APIError")), dest)
    ELSE IF dest.kind = "none"
    THEN [err |-> NilErr, out |-> dest]
    ELSE Decode(resp.body, dest)

\* the part of Do after the response has arrived: [err, out]
HandleResponse(resp, dest) ==
    IF resp.status >= 400
    THEN ErrorReturn(Decode(resp.body, Dest("APIError")), dest)
    ELSE IF dest.kind = "none"
    THEN [err |-> NilErr, out |-> dest]
    ELSE Decode(resp.body, dest)

\* [sent, err, out, left]: the requests handed to the transport, the error
\* returned, the destination as Do leaves it, and the replies the transport
\* was not asked for
DoReturn(reqs, handled, left) ==
    [sent |-> reqs, err |-> handled.err, out |-> handled.out, left |-> left]

\* a Do that sends the request once more when the transport has failed
RoundTrip_Retry(req, dest, replies) ==
    IF Head(replies).kind = "error"
    THEN IF Tail(replies) = <<>> \/ replies[2].kind = "error"
         THEN DoReturn(<<req, req>>, [err |-> TransportErr, out |-> dest],
                       <<>>)
         ELSE DoReturn(<<req, req>>, HandleResponse(replies[2], dest),
                       Tail(Tail(replies)))
    ELSE DoReturn(<<req>>, HandleResponse(Head(replies), dest),
                  Tail(replies))

\* http.DefaultClient.Do(req) and what follows it in Do
RoundTrip(req, dest, replies) ==
    IF Head(replies).kind = "error"
    THEN DoReturn(<<req>>, [err |-> TransportErr, out |-> dest],
                  Tail(replies))
    ELSE DoReturn(<<req>>, HandleResponse(Head(replies), dest),
                  Tail(replies))

\* Client.Do
Do(cl, method, path, values, dest, replies) ==
    IF ~ValidURL(path)
    THEN DoReturn(<<>>, [err |-> BuildErr, out |-> dest], replies)
    ELSE RoundTrip(SetHeaders(SetAuth(cl, NewRequest(method, path, values))),
                   dest, replies)

\* what an operation returns once Do has returned d: the zero value and
\* the error, or what was decoded and nil: [meta, value, list, err, do]
Return(d) ==
    IF d.err # NilErr
    THEN [meta |-> ZeroMetadata, value |-> <<>>, list |-> <<>>,
          err |-> d.err, do |-> d]
    ELSE [meta |-> d.out.meta, value |-> d.out.value, list |-> d.out.list,
          err |-> NilErr, do |-> d]

\* CreateSecret
CreateSecret(cl, value, opts, replies) ==
    Return(Do(cl, "POST", P_share, apply(K_secret :> <<value>>, opts),
              Dest("Metadata"), replies))

\* GenerateSecret
GenerateSecret(cl, opts, replies) ==
    Return(Do(cl, "POST", P_generate, apply(NoValues, opts),
              Dest("GeneratedSecret"), replies))

\* url.Values that the passphrase was never put in
PassphraseData_Never(passphrase) == NoValues

\* url.Values that carry the passphrase even when it is empty
PassphraseData_Always(passphrase) ==
    Values_Set(NoValues, K_passphrase, passphrase)

\* the url.Values of RetrieveSecretWithPassphrase
PassphraseData(passphrase) ==
    IF passphrase # <<>>
    THEN Values_Set(NoValues, K_passphrase, passphrase)
    ELSE NoValues

\* a retrieval that hands out all of the GeneratedSecret decoded
ValueOnly_Everything(r) == r

\* of the GeneratedSecret decoded, the Value alone is returned
ValueOnly(r) == [r EXCEPT !.meta = ZeroMetadata]

\* RetrieveSecretWithPassphrase
RetrieveSecretWithPassphrase(cl, secretKey, passphrase, replies) ==
    ValueOnly(Return(Do(cl, "POST", P_secret \o secretKey,
                        PassphraseData(passphrase), Dest("GeneratedSecret"),
                        replies)))

\* RetrieveSecret
RetrieveSecret(cl, secretKey, replies) ==
    RetrieveSecretWithPassphrase(cl, secretKey, <<>>, replies)

\* RetrieveMetadata
RetrieveMetadata(cl, metadataKey, replies) ==
    Return(Do(cl, "POST", P_private \o metadataKey, NoValues,
              Dest("Metadata"), replies))

\* retrieveRecentMetadata
retrieveRecentMetadata(cl, replies) ==
    Return(Do(cl, "POST", P_private \o P_recent, NoValues,
              Dest("MetadataList"), replies))

S_unread == <<"u", "n", "r", "e", "a", "d">>
S_read   == <<"r", "e", "a", "d">>

\* a Status that looks at the time of creation
Status_Created(m) == IF m.Created = 0 THEN S_unread ELSE S_read

\* Metadata.Status
Status(m) == IF m.Received = 0 THEN S_unread ELSE S_read

\* Timestamp.Time: the instant that many seconds after the UNIX epoch
Time(t) == t

\* Metadata.Deadline
Deadline(m) == Time(m.Created) + m.TTL

(***************************************************************************)
(* The command line front end                                              *)
(***************************************************************************)

\* getClient: flags first, the configuration (file or environment) second
getClient(flagUser, flagToken, cfgUser, cfgToken) ==
    LET username == IF flagUser = <<>> THEN cfgUser ELSE flagUser
        apitoken == IF flagToken = <<>> THEN cfgToken ELSE flagToken
    IN  IF apitoken # <<>> /\ username # <<>>
        THEN [Username |-> username, APIToken |-> apitoken]
        ELSE NoClient

\* one printed line: what precedes the value, and the value
Line(label, item) == [label |-> label, item |-> item]

\* what the create command prints after the secret is there
CreateLines(m, email) ==
    << IF email # <<>>
       THEN Line("Email with link has been sent to", JList(m.Recipient))
       ELSE Line("Secret path:  https://onetimesecret.com/secret/",
                 JStr(m.SecretKey)),
       Line("Metadata key (do not share):", JStr(m.MetadataKey)) >>

\* [out, err, exit, sent, meta, value]
Failed(r) ==
    [out |-> <<>>, err |-> r.err, exit |-> 1, sent |-> r.do.sent,
     meta |-> r.meta, value |-> <<>>]

Created(r, email) ==
    IF r.err # NilErr THEN Failed(r)
    ELSE [out |-> CreateLines(r.meta, email), err |-> NilErr, exit |-> 0,
          sent |-> r.do.sent, meta |-> r.meta, value |-> <<>>]

Generated(g, email) ==
    IF g.err # NilErr THEN Failed(g)
    ELSE [out |-> <<Line("Secret value:", JStr(g.value))>>
                  \o CreateLines(g.meta, email),
          err |-> NilErr, exit |-> 0, sent |-> g.do.sent, meta |-> g.meta,
          value |-> g.value]

RecipientOpts(email) ==
    IF email # <<>> THEN <<OptRecipient(email)>> ELSE <<>>

\* the create command
handleCreate(cl, value, email, replies) ==
    IF value # <<>>
    THEN Created(CreateSecret(cl, value, RecipientOpts(email), replies),
                 email)
    ELSE Generated(GenerateSecret(cl, RecipientOpts(email), replies), email)

\* what the inspect command prints for one Metadata
InspectLines(m) ==
    << Line("Password set:", JBool(m.PassphraseRequired)),
       Line("Status      :", JStr(Status(m))) >>
    \o (IF Status(m) = S_read
        THEN <<Line("Received at :", JNum(Time(m.Received)))>> ELSE <<>>)
    \o << Line("Expires     :", JNum(Deadline(m))),
          Line("Created on  :", JNum(Time(m.Created))),
          Line("Created by  :", JStr(m.CustomerID)) >>
    \o (IF Len(m.Recipient) > 0
        THEN <<Line("Sent to     :", JStr(m.Recipient[1]))>> ELSE <<>>)
    \o (IF m.SecretKey # <<>>
        THEN <<Line("Secret URL  : https://onetimesecret.com/secret/",
                    JStr(m.SecretKey))>>
        ELSE <<>>)

\* the lines and requests of one argument before those of the arguments
\* after it
Inspected(r, rest) ==
    [out  |-> InspectLines(r.meta) \o rest.out,
     err  |-> rest.err,
     exit |-> rest.exit,
     sent |-> r.do.sent \o rest.sent,
     meta |-> r.meta,
     value |-> <<>>]

NothingInspected ==
    [out |-> <<>>, err |-> NilErr, exit |-> 0, sent |-> <<>>,
     meta |-> ZeroMetadata, value |-> <<>>]

\* the inspect command: one RetrieveMetadata per argument, in order, until
\* one fails
RECURSIVE handleInspect(_, _, _)
InspectFrom(cl, args, r) ==
    IF r.err # NilErr THEN Failed(r)
    ELSE Inspected(r, handleInspect(cl, Tail(args), r.do.left))

handleInspect(cl, args, replies) ==
    IF args = <<>> THEN NothingInspected
    ELSE InspectFrom(cl, args, RetrieveMetadata(cl, Head(args), replies))

(***************************************************************************)
(* Spec: the client and the command line against a transport that may do   *)
(* anything: fail, or answer any status with any body                      *)
(***************************************************************************)

\* what a call was given
Args(key, passphrase, value, opts, destKind) ==
    [ key |-> key, passphrase |-> passphrase, value |-> value, opts |-> opts,
      destKind |-> destKind ]

NoArgs == Args(<<>>, <<>>, <<>>, <<>>, "none")

\* what a call returned: the operation, the Client it ran on, its
\* arguments, the error, the exit status (commands), the Metadata, the
\* secret value and the list returned, and the destination as Do left it
Result(op, cl, args, err, exit, meta, value, list, dest) ==
    [ op |-> op, client |-> cl, args |-> args, err |-> err, exit |-> exit,
      meta |-> meta, value |-> value, list |-> list, dest |-> dest ]

IdleRes ==
    Result("none", NoClient, NoArgs, NilErr, 0, ZeroMetadata, <<>>, <<>>,
           Dest("none"))

S_UnknownSecret ==
    <<"U", "n", "k", "n", "o", "w", "n", " ", "s", "e", "c", "r", "e", "t">>

S_anon == <<"a", "n", "o", "n">>

\* the bodies the transport answers with
GeneratedObject ==
    ("custid" :> JStr(S_anon))
    @@ ("metadata_key" :> JStr(<<"m", "1">>))
    @@ ("secret_key" :> JStr(<<"s", "1">>))
    @@ ("value" :> JStr(<<"v", "1">>))
    @@ ("recipient" :> JList(<< <<"a", "@", "b">> >>))
    @@ ("passphrase_required" :> JBool(TRUE))
    @@ ("ttl" :> JNum(3600))
    @@ ("metadata_ttl" :> JNum(7200))
    @@ ("secret_ttl" :> JNum(3600))
    @@ ("created" :> JNum(1490224384))
    @@ ("updated" :> JNum(1490224384))
    @@ ("received" :> JNum(0))

ReadObject ==
    ("custid" :> JStr(<<"u">>))
    @@ ("metadata_key" :> JStr(<<"m", "1">>))
    @@ ("value" :> JStr(<<"v", "1">>))
    @@ ("created" :> JNum(1490224384))
    @@ ("received" :> JNum(1490224390))

PartialObject ==
    ("metadata_key" :> JStr(<<"m", "1">>))
    @@ ("secret_key" :> JStr(<<"s", "1">>))
    @@ ("value" :> JStr(<<"v", "1">>))
    @@ ("ttl" :> JStr(<<"x">>))
    @@ ("received" :> JNum(7))

BodySamples ==
    { GarbageBody, EmptyBody, NullBody,
      ObjectBody(NoFields),
      ObjectBody("message" :> JStr(S_UnknownSecret)),
      ObjectBody("message" :> JNum(5)),
      ObjectBody(GeneratedObject),
      ObjectBody(ReadObject),
      ObjectBody(PartialObject),
      ArrayBody(<<GeneratedObject, ReadObject>>) }

StatusSamples == {200, 399, 400, 404, 500}

Replies ==
    {TransportFails} \cup
    {Response(st, body) : st \in StatusSamples, body \in BodySamples}

\* what the transport does with a second request of the same call
LaterReplies ==
    { TransportFails,
      Response(200, ObjectBody(ReadObject)),
      Response(404, ObjectBody("message" :> JStr(S_UnknownSecret))) }

NameSamples  == { <<>>, <<"u">> }
TokenSamples == { <<>>, <<"t">> }
CfgNames     == { <<>>, <<"v">> }
CfgTokens    == { <<>>, <<"x">> }

KeySamples == { <<"s", "1">>, <<"%", "z">> }

ValueSamples == { <<>>, <<"a", "b", "c">> }

OptLists ==
    { <<>>,
      <<OptTTL(Duration(FALSE, 123, 0))>>,
      <<OptTTL(Duration(FALSE, 14 * Day + Minute, 0))>>,
      <<OptPassphrase(<<"p">>)>>,
      <<OptRecipient(<<"a", "@", "b">>)>>,
      <<OptTTL(Duration(FALSE, 1, 500000000)),
        OptPassphrase(<<"a", "&", "b", "=">>)>> }

ArgLists == { <<>>, << <<"m", "1">> >>, << <<"m", "1">>, <<"m", "2">> >>,
              << <<"%", "z">>, <<"m", "1">> >> }

Init ==
    /\ c \in [Username : NameSamples, APIToken : TokenSamples]
    /\ net = <<>>
    /\ sent = <<>>
    /\ res = IdleRes
    /\ out = <<>>
    /\ params = NoValues
    /\ applied = <<>>
    /\ svc = <<>>
    /\ hist = <<>>

\* the transport's behaviour during the next call is settled
Arm(first, later) ==
    /\ net = <<>>
    /\ net' = <<first, later>>
    /\ UNCHANGED <<c, sent, res, out, params, applied, svc, hist>>

\* the caller is done with what the call returned
NextCall ==
    /\ res.op # "none"
    /\ net' = <<>>
    /\ res' = IdleRes
    /\ sent' = <<>>
    /\ out' = <<>>
    /\ UNCHANGED <<c, params, applied, svc, hist>>

Ready == net # <<>> /\ res.op = "none"

\* the call has returned r
Returned(op, cl, args, r) ==
    /\ res' = Result(op, cl, args, r.err, 0, r.meta, r.value, r.list,
                     r.do.out)
    /\ sent' = r.do.sent

CreateSecretCall(value, opts) ==
    /\ Ready
    /\ Returned("CreateSecret", c, Args(<<>>, <<>>, value, opts, "Metadata"),
                CreateSecret(c, value, opts, net))
    /\ UNCHANGED <<c, out, net, params, applied, svc, hist>>

GenerateSecretCall(opts) ==
    /\ Ready
    /\ Returned("GenerateSecret", c,
                Args(<<>>, <<>>, <<>>, opts, "GeneratedSecret"),
                GenerateSecret(c, opts, net))
    /\ UNCHANGED <<c, out, net, params, applied, svc, hist>>

RetrieveSecretCall(secretKey) ==
    /\ Ready
    /\ Returned("RetrieveSecret", c,
                Args(secretKey, <<>>, <<>>, <<>>, "GeneratedSecret"),
                RetrieveSecret(c, secretKey, net))
    /\ UNCHANGED <<c, out, net, params, applied, svc, hist>>

RetrieveSecretWithPassphraseCall(secretKey, passphrase) ==
    /\ Ready
    /\ Returned("RetrieveSecretWithPassphrase", c,
                Args(secretKey, passphrase, <<>>, <<>>, "GeneratedSecret"),
                RetrieveSecretWithPassphrase(c, secretKey, passphrase, net))
    /\ UNCHANGED <<c, out, net, params, applied, svc, hist>>

RetrieveMetadataCall(metadataKey) ==
    /\ Ready
    /\ Returned("RetrieveMetadata", c,
                Args(metadataKey, <<>>, <<>>, <<>>, "Metadata"),
                RetrieveMetadata(c, metadataKey, net))
    /\ UNCHANGED <<c, out, net, params, applied, svc, hist>>

RecentMetadataCall ==
    /\ Ready
    /\ Returned("retrieveRecentMetadata", c,
                Args(<<>>, <<>>, <<>>, <<>>, "MetadataList"),
                retrieveRecentMetadata(c, net))
    /\ UNCHANGED <<c, out, net, params, applied, svc, hist>>

\* Do has returned d to a user of the package
DoReturned(cl, destKind, d) ==
    /\ res' = Result("Do", cl, Args(<<>>, <<>>, <<>>, <<>>, destKind),
                     d.err, 0, d.out.meta, d.out.value, d.out.list, d.out)
    /\ sent' = d.sent

\* Do called by a user of the package, with a destination or with none
DoCall(destKind) ==
    /\ Ready
    /\ DoReturned(c, destKind,
                  Do(c, "POST", P_share, NoValues, Dest(destKind), net))
    /\ UNCHANGED <<c, out, net, params, applied, svc, hist>>

\* the command has ended with r
Ended(op, cl, args, r) ==
    /\ res' = Result(op, cl, args, r.err, r.exit, r.meta, r.value, <<>>,
                     Dest("none"))
    /\ sent' = r.sent
    /\ out' = r.out

CommandClient(cl, op, value, email, args) ==
    Ended(op, cl, Args(<<>>, <<>>, value, RecipientOpts(email) \o args, "none"),
          IF op = "create" THEN handleCreate(cl, value, email, net)
          ELSE handleInspect(cl, args, net))

CreateCommand(flagUser, flagToken, cfgUser, cfgToken, value, email) ==
    /\ Ready
    /\ CommandClient(getClient(flagUser, flagToken, cfgUser, cfgToken),
                     "create", value, email, <<>>)
    /\ UNCHANGED <<c, net, params, applied, svc, hist>>

InspectCommand(flagUser, flagToken, cfgUser, cfgToken, args) ==
    /\ Ready
    /\ CommandClient(getClient(flagUser, flagToken, cfgUser, cfgToken),
                     "inspect", <<>>, <<>>, args)
    /\ UNCHANGED <<c, net, params, applied, svc, hist>>

Next ==
    \/ \E first \in Replies, later \in LaterReplies : Arm(first, later)
    \/ NextCall
    \/ \E value \in ValueSamples, opts \in OptLists :
          CreateSecretCall(value, opts)
    \/ \E opts \in OptLists : GenerateSecretCall(opts)
    \/ \E key \in KeySamples : RetrieveSecretCall(key)
    \/ \E key \in KeySamples, phrase \in PassphraseSamples :
          RetrieveSecretWithPassphraseCall(key, phrase)
    \/ \E key \in KeySamples : RetrieveMetadataCall(key)
    \/ RecentMetadataCall
    \/ \E kind \in {"none", "Metadata", "GeneratedSecret", "MetadataList"} :
          DoCall(kind)
    \/ \E fu \in NameSamples, ft \in TokenSamples, cu \in CfgNames,
          ct \in CfgTokens, value \in ValueSamples,
          email \in {<<>>, <<"a", "@", "b">>} :
          CreateCommand(fu, ft, cu, ct, value, email)
    \/ \E fu \in NameSamples, ft \in TokenSamples, cu \in CfgNames,
          ct \in CfgTokens, args \in ArgLists :
          InspectCommand(fu, ft, cu, ct, args)

Spec == Init /\ [][Next]_vars

(***************************************************************************)
(* SpecService: the client against the service it is written for.  The     *)
(* service is described by the specification of the client and by the      *)
(* tests of the client: it keeps the secrets, gives each a secret key and  *)
(* a metadata key, hands the value out once, and answers "Unknown secret"  *)
(* with status 404 otherwise.  The transport carries every request to it   *)
(* and every response back.                                                *)
(***************************************************************************)

\* the secrets the service is asked to keep
MaxSecrets == 2

\* the time at the service when it starts
Epoch == 1490224384

\* the time to live of a secret that was given none
DefaultTTL == 604800

RECURSIVE StrToNat(_)
StrToNat(str) ==
    IF str = <<>> THEN 0
    ELSE 10 * StrToNat(SubSeq(str, 1, Len(str) - 1))
         + (CHOOSE n \in 0..9 : Digits[n + 1] = str[Len(str)])

HasPrefix(path, prefix) ==
    Len(path) >= Len(prefix) /\ SubSeq(path, 1, Len(prefix)) = prefix

After(path, prefix) == SubSeq(path, Len(prefix) + 1, Len(path))

\* the account a request is made for
Owner(req) == IF req.auth.set THEN req.auth.user ELSE S_anon

\* the secret the service keeps for a request to create or generate one
Secret(i, req, value, form) ==
    [ secretKey   |-> <<"s">> \o NatToStr(i),
      metadataKey |-> <<"m">> \o NatToStr(i),
      value       |-> value,
      passphrase  |-> Values_Get(form, K_passphrase),
      ttl         |-> IF Values_Get(form, K_ttl) = <<>> THEN DefaultTTL
                      ELSE StrToNat(Values_Get(form, K_ttl)),
      recipient   |-> IF req.auth.set /\ Values_Get(form, K_recipient) # <<>>
                      THEN <<Values_Get(form, K_recipient)>> ELSE <<>>,
      custid      |-> Owner(req),
      created     |-> 0,
      received    |-> 0 ]

\* the metadata of a secret as the service writes it; the secret key is
\* part of it until the value has been handed out
MetadataObject(s) ==
    ("custid" :> JStr(s.custid))
    @@ ("metadata_key" :> JStr(s.metadataKey))
    @@ (IF s.received = 0 THEN "secret_key" :> JStr(s.secretKey)
        ELSE NoFields)
    @@ ("recipient" :> JList(s.recipient))
    @@ ("passphrase_required" :> JBool(s.passphrase # <<>>))
    @@ ("ttl" :> JNum(s.ttl))
    @@ ("metadata_ttl" :> JNum(2 * s.ttl))
    @@ ("secret_ttl" :> JNum(s.ttl))
    @@ ("created" :> JNum(s.created))
    @@ ("updated" :> JNum(IF s.received = 0 THEN s.created ELSE s.received))
    @@ ("received" :> JNum(s.received))

Unknown == Response(404, ObjectBody("message" :> JStr(S_UnknownSecret)))

\* the service and its answer: [svc, reply]
Served(sv, reply) == [svc |-> sv, reply |-> reply]

\* the service keeps the secret s
Keep(sv, s, withValue) ==
    Served([sv EXCEPT !.store = Append(sv.store,
                                       [s EXCEPT !.created = sv.now]),
                      !.now   = sv.now + 1],
           Response(200, ObjectBody(
               MetadataObject([s EXCEPT !.created = sv.now])
               @@ (IF withValue THEN "value" :> JStr(s.value)
                   ELSE NoFields))))

\* the passphrase given opens the secret; what a passphrase does to a
\* secret that has none is left to the service (lenient or not)
PassphraseOpens(s, given, lenient) ==
    IF s.passphrase = <<>> THEN given = <<>> \/ lenient
    ELSE given = s.passphrase

\* the secrets that a request for the value under this key may read
Readable(sv, key, given, lenient) ==
    { i \in 1..Len(sv.store) :
        /\ sv.store[i].secretKey = key
        /\ sv.store[i].received = 0
        /\ PassphraseOpens(sv.store[i], given, lenient) }

\* the value is handed out and the secret is read from now on
HandOut(sv, i) ==
    Served([sv EXCEPT !.store[i].received = sv.now,
                      !.now               = sv.now + 1],
           Response(200, ObjectBody(
               ("value" :> JStr(sv.store[i].value))
               @@ ("secret_key" :> JStr(sv.store[i].secretKey)))))

ServeSecret(sv, hits) ==
    IF hits = {} THEN Served(sv, Unknown)
    ELSE HandOut(sv, CHOOSE i \in hits : TRUE)

ServeMetadata(sv, hits) ==
    IF hits = {} THEN Served(sv, Unknown)
    ELSE Served(sv, Response(200, ObjectBody(
                        MetadataObject(sv.store[CHOOSE i \in hits : TRUE]))))

\* the metadata of the account's secrets, without the secret keys
RECURSIVE RecentOf(_, _)
RecentOf(store, owner) ==
    IF store = <<>> THEN <<>>
    ELSE (IF Head(store).custid = owner
          THEN <<[k \in DOMAIN MetadataObject(Head(store)) \ {"secret_key"}
                    |-> MetadataObject(Head(store))[k]]>>
          ELSE <<>>)
         \o RecentOf(Tail(store), owner)

\* whether the list of the recent secrets is there at all is left to the
\* service (lenient or not)
ServeRecent(sv, req) ==
    IF req.auth.set /\ sv.lenient
    THEN Served(sv, Response(200, ArrayBody(RecentOf(sv.store, Owner(req)))))
    ELSE Served(sv, Unknown)

Route(sv, req, form) ==
    CASE req.path = P_generate ->
            Keep(sv, Secret(Len(sv.store) + 1, req,
                            <<"v">> \o NatToStr(Len(sv.store) + 1), form),
                 TRUE)
      [] req.path = P_share ->
            Keep(sv, Secret(Len(sv.store) + 1, req,
                            Values_Get(form, K_secret), form),
                 FALSE)
      [] HasPrefix(req.path, P_secret) ->
            ServeSecret(sv, Readable(sv, After(req.path, P_secret),
                                     Values_Get(form, K_passphrase), sv.lenient))
      [] req.path = P_private \o P_recent ->
            ServeRecent(sv, req)
      [] HasPrefix(req.path, P_private) ->
            ServeMetadata(sv, { i \in 1..Len(sv.store) :
                sv.store[i].metadataKey = After(req.path, P_private) })
      [] OTHER -> Served(sv, Unknown)

\* the service is handed the requests of one call
Serve(sv, reqs) ==
    IF reqs = <<>> THEN Served(sv, TransportFails)
    ELSE Route(sv, reqs[1], ParseQuery(reqs[1].body))

\* the operation of the client that a call names
CallOp(op, args, replies) ==
    CASE op = "GenerateSecret" -> GenerateSecret(c, args.opts, replies)
      [] op = "CreateSecret" ->
            CreateSecret(c, args.value, args.opts, replies)
      [] op = "RetrieveSecret" -> RetrieveSecret(c, args.key, replies)
      [] op = "RetrieveSecretWithPassphrase" ->
            RetrieveSecretWithPassphrase(c, args.key, args.passphrase,
                                         replies)
      [] op = "RetrieveMetadata" -> RetrieveMetadata(c, args.key, replies)
      [] op = "retrieveRecentMetadata" -> retrieveRecentMetadata(c, replies)

\* what the caller knows of a secret it has made: the keys and the value
\* it was given, the passphrase it chose, and how many times it has been
\* given the value back
Made(op, args, r) ==
    [ secretKey   |-> r.meta.SecretKey,
      metadataKey |-> r.meta.MetadataKey,
      value       |-> IF op = "GenerateSecret" THEN r.value ELSE args.value,
      passphrase  |-> Values_Get(apply(NoValues, args.opts), K_passphrase),
      generated   |-> op = "GenerateSecret",
      reads       |-> 0 ]

\* what the caller knows after the call has returned r
Observe(log, op, args, r) ==
    CASE r.err # NilErr -> log
      [] r.err = NilErr /\ op \in {"GenerateSecret", "CreateSecret"} ->
            Append(log, Made(op, args, r))
      [] r.err = NilErr
         /\ op \in {"RetrieveSecret", "RetrieveSecretWithPassphrase"} ->
            [i \in DOMAIN log |->
                IF log[i].secretKey = args.key
                THEN [log[i] EXCEPT !.reads = @ + 1] ELSE log[i]]
      [] OTHER -> log

\* the service as it starts
NewService(lenient) == [store |-> <<>>, now |-> Epoch, lenient |-> lenient]

ServiceInit ==
    /\ c \in {NoClient, [Username |-> <<"u">>, APIToken |-> <<"t">>]}
    /\ svc \in {NewService(lenient) : lenient \in BOOLEAN}
    /\ hist = [log |-> <<>>, prev |-> <<>>, before |-> svc]
    /\ net = <<>>
    /\ sent = <<>>
    /\ res = IdleRes
    /\ out = <<>>
    /\ params = NoValues
    /\ applied = <<>>

\* the call has returned r after the service sv.svc gave the answer sv.reply
Finish(op, args, sv, r) ==
    /\ res' = Result(op, c, args, r.err, 0, r.meta, r.value, r.list, r.do.out)
    /\ sent' = r.do.sent
    /\ net' = <<sv.reply>>
    /\ svc' = sv.svc
    /\ hist' = [log    |-> Observe(hist.log, op, args, r),
                prev   |-> hist.log,
                before |-> svc]

Exchange(op, args, sv) == Finish(op, args, sv, CallOp(op, args, <<sv.reply>>))

\* one call of an operation: its request reaches the service, the answer of
\* the service reaches Do
AtService(op, args) ==
    Exchange(op, args,
             Serve(svc, CallOp(op, args, <<TransportFails>>).do.sent))

GenerateAtService(opts) ==
    /\ Len(svc.store) < MaxSecrets
    /\ AtService("GenerateSecret",
                 Args(<<>>, <<>>, <<>>, opts, "GeneratedSecret"))
    /\ UNCHANGED <<c, out, params, applied>>

CreateAtService(value, opts) ==
    /\ Len(svc.store) < MaxSecrets
    /\ AtService("CreateSecret", Args(<<>>, <<>>, value, opts, "Metadata"))
    /\ UNCHANGED <<c, out, params, applied>>

RetrieveAtService(secretKey) ==
    /\ AtService("RetrieveSecret",
                 Args(secretKey, <<>>, <<>>, <<>>, "GeneratedSecret"))
    /\ UNCHANGED <<c, out, params, applied>>

RetrieveWithPassphraseAtService(secretKey, passphrase) ==
    /\ AtService("RetrieveSecretWithPassphrase",
                 Args(secretKey, passphrase, <<>>, <<>>, "GeneratedSecret"))
    /\ UNCHANGED <<c, out, params, applied>>

MetadataAtService(metadataKey) ==
    /\ AtService("RetrieveMetadata",
                 Args(metadataKey, <<>>, <<>>, <<>>, "Metadata"))
    /\ UNCHANGED <<c, out, params, applied>>

RecentAtService ==
    /\ AtService("retrieveRecentMetadata",
                 Args(<<>>, <<>>, <<>>, <<>>, "MetadataList"))
    /\ UNCHANGED <<c, out, params, applied>>

S_ab == <<"a", "&", "b", "=">>

GenerateOpts == { <<>>, <<OptPassphrase(S_ab)>> }

CreateOpts == { <<OptTTL(Duration(FALSE, 123, 0))>> }

\* the keys asked for: those the service gives out, sooner or later, and
\* one that no URL can hold
SecretKeys ==
    { <<"s">> \o NatToStr(i) : i \in 1..MaxSecrets } \cup { <<"%", "z">> }

MetadataKeys == { <<"m">> \o NatToStr(i) : i \in 1..MaxSecrets }

ServiceNext ==
    \/ \E opts \in GenerateOpts : GenerateAtService(opts)
    \/ \E opts \in CreateOpts : CreateAtService(<<"a", "b", "c">>, opts)
    \/ \E key \in SecretKeys : RetrieveAtService(key)
    \/ \E key \in SecretKeys, phrase \in {<<"p">>, S_ab} :
          RetrieveWithPassphraseAtService(key, phrase)
    \/ \E key \in MetadataKeys : MetadataAtService(key)
    \/ RecentAtService

SpecService == ServiceInit /\ [][ServiceNext]_vars

(***************************************************************************)
(* Properties of Spec                                                      *)
(***************************************************************************)

\* the operations of the client
LibOps ==
    { "CreateSecret", "GenerateSecret", "RetrieveSecret",
      "RetrieveSecretWithPassphrase", "RetrieveMetadata",
      "retrieveRecentMetadata" }

\* a call has returned after the transport answered its request
Answered ==
    /\ res.op \in LibOps \cup {"Do"}
    /\ sent # <<>>
    /\ net[1].kind = "response"

\* the body is JSON that an APIError can take
ErrorBodyDecodes(body) ==
    \/ body.kind = "null"
    \/ /\ body.kind = "object"
       /\ "message" \in DOMAIN body.fields
            => body.fields["message"].t \in {"string", "null"}

\* the message of the body, "" where it has none
MessageOf(body) ==
    IF /\ body.kind = "object"
       /\ "message" \in DOMAIN body.fields
       /\ body.fields["message"].t = "string"
    THEN body.fields["message"].s
    ELSE <<>>

\* the body is JSON that a destination of this kind can take
SuccessBodyDecodes(body, kind) ==
    \/ body.kind = "null"
    \/ /\ body.kind = "object"
       /\ kind \in {"Metadata", "GeneratedSecret"}
       /\ ~ObjectMismatch(body.fields, kind)
    \/ /\ body.kind = "array"
       /\ kind = "MetadataList"
       /\ \A i \in 1..Len(body.items) : ~MetadataMismatch(body.items[i])

\* C1: a response of status >= 400 never gives nil and never fills the
\* destination: Do returns the APIError with the decoded message, or the
\* failure to decode the error body.  A response of status < 400 never gives
\* an APIError: Do returns nil when no destination was asked for or the body
\* decodes into it, and the decoding failure otherwise.  An operation that
\* returns an error returns the zero value with it.
C1_StatusDecidesResult ==
    /\ (Answered /\ net[1].status >= 400) =>
          /\ res.err # NilErr
          /\ res.dest = Dest(res.args.destKind)
          /\ res.err = IF ErrorBodyDecodes(net[1].body)
                       THEN APIError(MessageOf(net[1].body))
                       ELSE DecodeErr
    /\ (Answered /\ net[1].status < 400) =>
          /\ res.err.kind # "api"
          /\ res.err = IF \/ res.args.destKind = "none"
                          \/ SuccessBodyDecodes(net[1].body, res.args.destKind)
                       THEN NilErr
                       ELSE DecodeErr
    /\ (res.op \in LibOps /\ res.err # NilErr) =>
          /\ res.meta = ZeroMetadata
          /\ res.value = <<>>
          /\ res.list = <<>>

\* status 400 with a body that the success destination could have taken
C1_Witness ==
    /\ res.op = "GenerateSecret"
    /\ sent # <<>>
    /\ net[1] = Response(400, ObjectBody(GeneratedObject))
    /\ res.err = APIError(<<>>)
    /\ res.dest = Dest("GeneratedSecret")
    /\ res.value = <<>>

\* the credentials a request of this Client carries
AuthOf(cl) ==
    IF cl.Username # <<>> /\ cl.APIToken # <<>>
    THEN [set |-> TRUE, user |-> cl.Username, pass |-> cl.APIToken]
    ELSE NoAuth

\* C2: every request carries Basic authentication if and only if Username
\* and APIToken of the Client are both non-empty, and then these two; with
\* one or both empty no request carries credentials.  The Client of a
\* command has both set or both empty.
C2_BasicAuthBothOrNeither ==
    /\ \A i \in 1..Len(sent) : sent[i].auth = AuthOf(res.client)
    /\ res.op \in {"create", "inspect"} =>
          (res.client.Username = <<>> <=> res.client.APIToken = <<>>)

\* a Client with a Username and no APIToken has sent a request
C2_Witness ==
    /\ res.op \in LibOps
    /\ res.client.Username # <<>>
    /\ res.client.APIToken = <<>>
    /\ sent # <<>>
    /\ sent[1].auth = NoAuth

\* C6: RetrieveSecretWithPassphrase(K, "") sends parameters without a
\* "passphrase" key, RetrieveSecret(K) sends the same request and returns
\* the same result as it, and with a passphrase P that is not empty the
\* request carries passphrase=P and nothing else.
C6_EmptyPassphraseOmitted ==
    /\ (res.op \in {"RetrieveSecret", "RetrieveSecretWithPassphrase"}
        /\ sent # <<>>) =>
          ParseQuery(sent[1].body) =
              IF res.args.passphrase = <<>>
              THEN NoValues
              ELSE K_passphrase :> <<res.args.passphrase>>
    /\ res.op = "RetrieveSecret" =>
          /\ sent = RetrieveSecretWithPassphrase(
                        res.client, res.args.key, <<>>, net).do.sent
          /\ res.value = RetrieveSecretWithPassphrase(
                        res.client, res.args.key, <<>>, net).value
          /\ res.err = RetrieveSecretWithPassphrase(
                        res.client, res.args.key, <<>>, net).err

\* RetrieveSecretWithPassphrase with the empty passphrase has sent a body
\* that is empty
C6_Witness ==
    /\ res.op = "RetrieveSecretWithPassphrase"
    /\ res.args.passphrase = <<>>
    /\ Len(sent) = 1
    /\ sent[1].body = <<>>
    /\ res.value = <<"v", "1">>

\* the lines of this label that were printed with something in them
Printed(label) ==
    \E i \in 1..Len(out) : out[i].label = label /\ out[i].item.s # <<>>

\* what the operation returned, or what the command printed, holds the
\* value of a secret together with its metadata key
ValueWithMetadataKey ==
    \/ res.op \in LibOps /\ res.value # <<>> /\ res.meta.MetadataKey # <<>>
    \/ Printed("Secret value:") /\ Printed("Metadata key (do not share):")

\* RetrieveSecret and RetrieveSecretWithPassphrase return the secret text
\* alone, RetrieveMetadata and the recent metadata return no value
RetrievalsApart ==
    /\ res.op \in {"RetrieveSecret", "RetrieveSecretWithPassphrase"} =>
          res.meta = ZeroMetadata /\ res.list = <<>>
    /\ res.op \in {"RetrieveMetadata", "retrieveRecentMetadata", "inspect"} =>
          res.value = <<>> /\ ~Printed("Secret value:")

\* C9: no result of a client operation and no output of a command holds the
\* value of a secret together with its metadata key; RetrieveSecret and
\* RetrieveSecretWithPassphrase return the secret text alone and
\* RetrieveMetadata never returns the value.
C9_NeverValueWithMetadataKey ==
    /\ ~ValueWithMetadataKey
    /\ RetrievalsApart

\* C9 as the code has it: no retrieval (RetrieveSecret,
\* RetrieveSecretWithPassphrase, RetrieveMetadata, the recent metadata, the
\* inspect command) and no CreateSecret returns or prints the value of a
\* secret together with its metadata key; GenerateSecret and the create
\* command that generates are where both are handed out, and only there.
C9_RetrievalNeverValueWithMetadataKey ==
    /\ ValueWithMetadataKey =>
          \/ res.op = "GenerateSecret"
          \/ res.op = "create" /\ res.args.value = <<>>
    /\ RetrievalsApart

\* the service answered a retrieval with the value and the metadata key,
\* and the value alone was returned
C9_Witness ==
    /\ res.op = "RetrieveSecret"
    /\ res.err = NilErr
    /\ res.dest.meta.MetadataKey = <<"m", "1">>
    /\ res.value = <<"v", "1">>
    /\ res.meta = ZeroMetadata

\* C10: an operation of the client hands the transport at most one request,
\* and exactly one when the request can be built; it is a POST; after a
\* failure of the transport, of the service or of the decoding nothing is
\* sent again and the failure is returned; Username and APIToken of the
\* Client are as they were.
C10_OneExchange ==
    res.op \in LibOps =>
        /\ Len(sent) <= 1
        /\ Len(sent) = 1 <=> ValidURL(res.args.key)
        /\ \A i \in 1..Len(sent) : sent[i].method = "POST"
        /\ sent = <<>> => res.err = BuildErr
        /\ (sent # <<>> /\ net[1].kind = "error") => res.err = TransportErr
        /\ (sent # <<>> /\ net[1].kind = "response"
            /\ net[1].status >= 400) => res.err.kind \in {"api", "decode"}
        /\ (sent # <<>> /\ net[1].kind = "response"
            /\ net[1].status < 400
            /\ ~SuccessBodyDecodes(net[1].body, res.args.destKind)) =>
              res.err = DecodeErr
        /\ res.client = c

\* the transport failed and would have answered a second request; one
\* request was sent and the failure returned
C10_Witness ==
    /\ res.op = "RetrieveSecret"
    /\ net[1] = TransportFails
    /\ net[2] = Response(200, ObjectBody(ReadObject))
    /\ Len(sent) = 1
    /\ res.err = TransportErr

(***************************************************************************)
(* Properties of SpecService                                               *)
(***************************************************************************)

\* the call asked for the value of a secret
ValueAsked == res.op \in {"RetrieveSecret", "RetrieveSecretWithPassphrase"}

\* what the caller knew, before the call, of the secrets under the key asked
Known == { i \in 1..Len(hist.prev) : hist.prev[i].secretKey = res.args.key }

\* C3: the first RetrieveSecret(SecretKey) of a secret that GenerateSecret
\* made without a passphrase, and the first
\* RetrieveSecretWithPassphrase(SecretKey, P) of one it made with the
\* passphrase P, return the Value that GenerateSecret returned, and nil.
C3_RoundTrip ==
    ValueAsked =>
        \A i \in Known :
            ( /\ hist.prev[i].generated
              /\ hist.prev[i].reads = 0
              /\ hist.prev[i].passphrase = res.args.passphrase )
            => res.err = NilErr /\ res.value = hist.prev[i].value

\* a secret generated with the passphrase a&b= has been read with it
C3_Witness ==
    /\ res.op = "RetrieveSecretWithPassphrase"
    /\ res.args.passphrase = S_ab
    /\ \E i \in Known : /\ hist.prev[i].generated
                        /\ hist.prev[i].reads = 0
                        /\ hist.prev[i].passphrase = S_ab
                        /\ hist.prev[i].value = <<"v", "1">>
    /\ res.err = NilErr
    /\ res.value = <<"v", "1">>

\* no secret has the key, the passphrase is not that of the secret, the
\* value of the secret has been handed out before
NoSuchSecret    == Known = {}
WrongPassphrase ==
    \E i \in Known : /\ hist.prev[i].passphrase # <<>>
                     /\ hist.prev[i].passphrase # res.args.passphrase
AlreadyRead     == \E i \in Known : hist.prev[i].reads > 0

IsUnknownSecret == res.value = <<>> /\ res.err = APIError(S_UnknownSecret)

\* C4: RetrieveSecretWithPassphrase returns the empty value and the APIError
\* "Unknown secret" when no secret has the key, when the passphrase is
\* wrong, and when the secret has been read: after one successful retrieval
\* every later retrieval of the key fails this way, and the three causes
\* look the same.
C4_UnknownSecret ==
    (ValueAsked /\ (NoSuchSecret \/ WrongPassphrase \/ AlreadyRead))
        => IsUnknownSecret

\* C4 for the keys a request can be built for: a key that holds a '%' that
\* two hexadecimal digits do not follow names no secret either, and what
\* is returned for it is the error of http.NewRequest, with nothing sent.
C4_UnknownSecretWhenBuilt ==
    /\ (ValueAsked /\ ValidURL(res.args.key)
        /\ (NoSuchSecret \/ WrongPassphrase \/ AlreadyRead))
          => IsUnknownSecret
    /\ (ValueAsked /\ ~ValidURL(res.args.key))
          => res.value = <<>> /\ res.err = BuildErr /\ sent = <<>>

\* a secret that was read once is asked for again, with its passphrase
C4_Witness ==
    /\ res.op = "RetrieveSecretWithPassphrase"
    /\ \E i \in Known : /\ hist.prev[i].reads = 1
                        /\ hist.prev[i].passphrase = res.args.passphrase
    /\ net[1].status = 404
    /\ IsUnknownSecret

\* what the caller knew, before the call, of the secrets under the metadata
\* key asked
KnownMetadata ==
    { i \in 1..Len(hist.prev) : hist.prev[i].metadataKey = res.args.key }

\* C5: RetrieveMetadata reports Received zero and Status "unread" from the
\* creation of a secret to the first successful retrieval of its value, and
\* Received non-zero and Status "read" after it; Status is "unread" exactly
\* when Received is 0; RetrieveMetadata changes nothing at the service and
\* nothing of what the caller may still read.
C5_ReceivedOnFirstRead ==
    /\ (res.op \in {"GenerateSecret", "CreateSecret"} /\ res.err = NilErr) =>
          res.meta.Received = 0 /\ Status(res.meta) = S_unread
    /\ (res.op = "RetrieveMetadata" /\ res.err = NilErr) =>
          \A i \in KnownMetadata :
              /\ hist.prev[i].reads = 0 =>
                    res.meta.Received = 0 /\ Status(res.meta) = S_unread
              /\ hist.prev[i].reads > 0 =>
                    res.meta.Received # 0 /\ Status(res.meta) = S_read
    /\ res.op = "RetrieveMetadata" =>
          /\ KnownMetadata # {} => res.err = NilErr
          /\ svc = hist.before
          /\ hist.log = hist.prev
    /\ Status(res.meta) = S_unread <=> res.meta.Received = 0

\* the metadata of a secret that has been read
C5_Witness ==
    /\ res.op = "RetrieveMetadata"
    /\ res.err = NilErr
    /\ \E i \in KnownMetadata : hist.prev[i].reads = 1
    /\ res.meta.Received > Epoch
    /\ Status(res.meta) = S_read

====
